---- MODULE Spec2Model ----
(***************************************************************************)
(* Model of the omron-fins client: the command encoders, the response      *)
(* decoder and the transaction layer (Client) with its SID counter and its *)
(* drain-and-retry loop.                                                   *)
(***************************************************************************)
EXTENDS Integers, Naturals, Sequences, FiniteSets, TLC

VARIABLES
    sid_counter,   \* Client.sid_counter (AtomicU8)
    pending,       \* datagrams queued at the socket and not yet read
    pc,            \* "idle" | "wait" (blocked in transport.send_receive) | "done"
    op,            \* the public operation being executed, with its operands
    sid,           \* the SID allocated to the current call (NoSid: none)
    buf,           \* the encoded request handed to send_receive_with_sid
    attempt,       \* loop variable of send_receive_with_sid
    sends,         \* transport.send_receive invocations of the current call
    sent,          \* the buffers the current call handed to transport.send_receive
    drains,        \* transport.drain_pending invocations of the current call
    ev,            \* event log of the current call
    resp,          \* last datagram decoded by the current call
    result,        \* outcome returned to the caller
    nalloc,        \* next_sid invocations so far
    pin,           \* input of a pure function under check
    pout,          \* output of a pure function under check
    th,            \* concurrent callers: each thread's position in its call
    allocs,        \* SIDs returned by next_sid to concurrent callers, in order
    wire,          \* requests sent by concurrent callers, not yet answered
    sockq,         \* replies queued at the socket shared by the callers
    ndup           \* datagrams the network has delivered twice so far

vars == <<sid_counter, pending, pc, op, sid, buf, attempt, sends, sent, drains, ev,
          resp, result, nalloc, pin, pout, th, allocs, wire, sockq, ndup>>

\* the part of the state that only calls made from several threads use
cvars == <<th, allocs, wire, sockq, ndup>>

(***************************************************************************)
(* Bounds of the model.                                                    *)
(***************************************************************************)
MaxAllocs == 2
MaxSidAllocs == 258
MaxPayloadLen == 8
MaxSpecs == 2
MaxPending == 1
MaxCode == 66
MaxConcAllocs == 2
MaxCountInput == 1001
MaxSpecsInput == 3
MaxStrChars == 3
MaxDups == 1
MaxSeqAllocs == 3

\* datagrams the socket of the client queues at most
MaxQueued == 1

(***************************************************************************)
(* Program constants.                                                      *)
(***************************************************************************)
MAX_WORDS_PER_COMMAND == 999
FINS_HEADER_SIZE == 10
MIN_RESPONSE_SIZE == FINS_HEADER_SIZE + 4
MAX_SID_RETRIES_one_less == 3 - 1
MAX_SID_RETRIES_one_more == 3 + 1
MAX_SID_RETRIES == 3

MRC_MEMORY_READ == 1
SRC_MEMORY_READ == 1
MRC_MEMORY_WRITE == 1
SRC_MEMORY_WRITE == 2
SRC_MEMORY_FILL == 3
SRC_MULTIPLE_READ == 4
SRC_MEMORY_TRANSFER == 5
MRC_RUN == 4
SRC_RUN == 1
SRC_STOP == 2
MRC_FORCED == 35
SRC_FORCED_SET_RESET == 1
SRC_FORCED_CANCEL == 2

NoSid == 0 - 1
None == 0 - 1
Unit == <<>>

(***************************************************************************)
(* Errors (FinsError) and results.                                         *)
(***************************************************************************)
Ok(v) == [ok |-> TRUE, val |-> v]
Err(e) == [ok |-> FALSE, err |-> e]

plc_error(main_code, sub_code) ==
    [tag |-> "PlcError", main_code |-> main_code, sub_code |-> sub_code]
invalid_addressing(reason) == [tag |-> "InvalidAddressing", reason |-> reason]
invalid_parameter(parameter, reason) ==
    [tag |-> "InvalidParameter", parameter |-> parameter, reason |-> reason]
invalid_response(reason) == [tag |-> "InvalidResponse", reason |-> reason]
sid_mismatch(expected, received) ==
    [tag |-> "SidMismatch", expected |-> expected, received |-> received]
Timeout == [tag |-> "Timeout"]
Io == [tag |-> "Io"]
\* an index out of bounds aborts the calling thread
Panic == [tag |-> "Panic"]

(***************************************************************************)
(* memory.rs                                                               *)
(***************************************************************************)
MemoryArea == {"CIO", "WR", "HR", "DM", "AR"}

word_code(area) ==
    CASE area = "CIO" -> 176
      [] area = "WR" -> 177
      [] area = "HR" -> 178
      [] area = "DM" -> 130
      [] area = "AR" -> 179

bit_code_dm_allowed(area) ==
    CASE area = "CIO" -> Ok(48)
      [] area = "WR" -> Ok(49)
      [] area = "HR" -> Ok(50)
      [] area = "DM" -> Ok(2)
      [] area = "AR" -> Ok(51)

bit_code(area) ==
    CASE area = "CIO" -> Ok(48)
      [] area = "WR" -> Ok(49)
      [] area = "HR" -> Ok(50)
      [] area = "DM" -> Err(invalid_addressing("DM area does not support bit access"))
      [] area = "AR" -> Ok(51)

supports_bit_access(area) == area # "DM"

(***************************************************************************)
(* header.rs                                                               *)
(***************************************************************************)
NodeAddress_new(network, node, unit) ==
    [network |-> network, node |-> node, unit |-> unit]

FinsHeader_new_command_sid_zero(destination, source, s) ==
    [icf |-> 128, rsv |-> 0, gct |-> 7,
     dna |-> destination.network, da1 |-> destination.node, da2 |-> destination.unit,
     sna |-> source.network, sa1 |-> source.node, sa2 |-> source.unit,
     sid |-> 0]

FinsHeader_new_command(destination, source, s) ==
    [icf |-> 128, rsv |-> 0, gct |-> 7,
     dna |-> destination.network, da1 |-> destination.node, da2 |-> destination.unit,
     sna |-> source.network, sa1 |-> source.node, sa2 |-> source.unit,
     sid |-> s]

FinsHeader_to_bytes(h) ==
    <<h.icf, h.rsv, h.gct, h.dna, h.da1, h.da2, h.sna, h.sa1, h.sa2, h.sid>>

FinsHeader_from_bytes_nodes_swapped(data) ==
    IF Len(data) < FINS_HEADER_SIZE
    THEN Err(invalid_response("header too short"))
    ELSE Ok([icf |-> data[1], rsv |-> data[2], gct |-> data[3],
             dna |-> data[4], da1 |-> data[8], da2 |-> data[6],
             sna |-> data[7], sa1 |-> data[5], sa2 |-> data[9],
             sid |-> data[10]])

FinsHeader_from_bytes(data) ==
    IF Len(data) < FINS_HEADER_SIZE
    THEN Err(invalid_response("header too short"))
    ELSE Ok([icf |-> data[1], rsv |-> data[2], gct |-> data[3],
             dna |-> data[4], da1 |-> data[5], da2 |-> data[6],
             sna |-> data[7], sa1 |-> data[8], sa2 |-> data[9],
             sid |-> data[10]])

(***************************************************************************)
(* command.rs                                                              *)
(***************************************************************************)
Address_word(word) == [word |-> word, bit |-> 0]

Address_bit(word, bit) ==
    IF bit > 15
    THEN Err(invalid_parameter("bit", "must be 0-15"))
    ELSE Ok([word |-> word, bit |-> bit])

Address_to_bytes(a) == <<a.word \div 256, a.word % 256, a.bit>>

ReadWordCommand_new_no_zero_check(destination, source, s, area, word_address, count) ==
    IF count > MAX_WORDS_PER_COMMAND
    THEN Err(invalid_parameter("count", "must not exceed 999"))
    ELSE Ok([kind |-> "ReadWord",
             header |-> FinsHeader_new_command(destination, source, s),
             area |-> area, address |-> Address_word(word_address),
             count |-> count])

ReadWordCommand_new(destination, source, s, area, word_address, count) ==
    IF count = 0
    THEN Err(invalid_parameter("count", "must be greater than 0"))
    ELSE IF count > MAX_WORDS_PER_COMMAND
    THEN Err(invalid_parameter("count", "must not exceed 999"))
    ELSE Ok([kind |-> "ReadWord",
             header |-> FinsHeader_new_command(destination, source, s),
             area |-> area, address |-> Address_word(word_address),
             count |-> count])

ReadWordCommand_to_bytes_count_low_first(c) ==
    FinsHeader_to_bytes(c.header)
      \o <<MRC_MEMORY_READ, SRC_MEMORY_READ, word_code(c.area)>>
      \o Address_to_bytes(c.address)
      \o <<c.count % 256, c.count \div 256>>

ReadWordCommand_to_bytes(c) ==
    FinsHeader_to_bytes(c.header)
      \o <<MRC_MEMORY_READ, SRC_MEMORY_READ, word_code(c.area)>>
      \o Address_to_bytes(c.address)
      \o <<c.count \div 256, c.count % 256>>

WriteWordCommand_new(destination, source, s, area, word_address, data) ==
    IF Len(data) = 0
    THEN Err(invalid_parameter("data", "must not be empty"))
    ELSE IF Len(data) > MAX_WORDS_PER_COMMAND
    THEN Err(invalid_parameter("data", "must not exceed 999 words"))
    ELSE Ok([kind |-> "WriteWord",
             header |-> FinsHeader_new_command(destination, source, s),
             area |-> area, address |-> Address_word(word_address),
             data |-> data])

\* big-endian bytes of a word sequence
WordBytes(data) ==
    [i \in 1..(2 * Len(data)) |->
        IF i % 2 = 1 THEN data[(i + 1) \div 2] \div 256
                     ELSE data[i \div 2] % 256]

WriteWordCommand_to_bytes(c) ==
    FinsHeader_to_bytes(c.header)
      \o <<MRC_MEMORY_WRITE, SRC_MEMORY_WRITE, word_code(c.area)>>
      \o Address_to_bytes(c.address)
      \o <<(Len(c.data) \div 256) % 256, Len(c.data) % 256>>
      \o WordBytes(c.data)

ReadBitCommand_new_no_area_check(destination, source, s, area, word_address, bit) ==
    IF ~Address_bit(word_address, bit).ok THEN Address_bit(word_address, bit)
    ELSE Ok([kind |-> "ReadBit",
             header |-> FinsHeader_new_command(destination, source, s),
             area |-> area, address |-> Address_bit(word_address, bit).val])

ReadBitCommand_new(destination, source, s, area, word_address, bit) ==
    IF ~bit_code(area).ok THEN bit_code(area)
    ELSE IF ~Address_bit(word_address, bit).ok THEN Address_bit(word_address, bit)
    ELSE Ok([kind |-> "ReadBit",
             header |-> FinsHeader_new_command(destination, source, s),
             area |-> area, address |-> Address_bit(word_address, bit).val])

ReadBitCommand_to_bytes(c) ==
    IF ~bit_code(c.area).ok THEN bit_code(c.area)
    ELSE Ok(FinsHeader_to_bytes(c.header)
              \o <<MRC_MEMORY_READ, SRC_MEMORY_READ, bit_code(c.area).val>>
              \o Address_to_bytes(c.address)
              \o <<0, 1>>)

WriteBitCommand_new(destination, source, s, area, word_address, bit, value) ==
    IF ~bit_code(area).ok THEN bit_code(area)
    ELSE IF ~Address_bit(word_address, bit).ok THEN Address_bit(word_address, bit)
    ELSE Ok([kind |-> "WriteBit",
             header |-> FinsHeader_new_command(destination, source, s),
             area |-> area, address |-> Address_bit(word_address, bit).val,
             value |-> value])

WriteBitCommand_to_bytes(c) ==
    IF ~bit_code(c.area).ok THEN bit_code(c.area)
    ELSE Ok(FinsHeader_to_bytes(c.header)
              \o <<MRC_MEMORY_WRITE, SRC_MEMORY_WRITE, bit_code(c.area).val>>
              \o Address_to_bytes(c.address)
              \o <<0, 1>>
              \o <<IF c.value THEN 1 ELSE 0>>)

FillCommand_new(destination, source, s, area, word_address, count, value) ==
    IF count = 0
    THEN Err(invalid_parameter("count", "must be greater than 0"))
    ELSE IF count > MAX_WORDS_PER_COMMAND
    THEN Err(invalid_parameter("count", "must not exceed 999"))
    ELSE Ok([kind |-> "Fill",
             header |-> FinsHeader_new_command(destination, source, s),
             area |-> area, address |-> Address_word(word_address),
             count |-> count, value |-> value])

FillCommand_to_bytes(c) ==
    FinsHeader_to_bytes(c.header)
      \o <<MRC_MEMORY_READ, SRC_MEMORY_FILL, word_code(c.area)>>
      \o Address_to_bytes(c.address)
      \o <<c.count \div 256, c.count % 256>>
      \o <<c.value \div 256, c.value % 256>>

PlcMode_code(mode) ==
    CASE mode = "Debug" -> 1
      [] mode = "Monitor" -> 2
      [] mode = "Run" -> 4

RunCommand_new(destination, source, s, mode) ==
    [kind |-> "Run", header |-> FinsHeader_new_command(destination, source, s),
     mode |-> mode]

RunCommand_to_bytes(c) ==
    FinsHeader_to_bytes(c.header) \o <<MRC_RUN, SRC_RUN, 255, 255, PlcMode_code(c.mode)>>

StopCommand_new(destination, source, s) ==
    [kind |-> "Stop", header |-> FinsHeader_new_command(destination, source, s)]

StopCommand_to_bytes(c) ==
    FinsHeader_to_bytes(c.header) \o <<MRC_RUN, SRC_STOP>>

TransferCommand_new(destination, source, s, src_area, src_address, dst_area, dst_address, count) ==
    IF count = 0
    THEN Err(invalid_parameter("count", "must be greater than 0"))
    ELSE IF count > MAX_WORDS_PER_COMMAND
    THEN Err(invalid_parameter("count", "must not exceed 999"))
    ELSE Ok([kind |-> "Transfer",
             header |-> FinsHeader_new_command(destination, source, s),
             src_area |-> src_area, src_address |-> Address_word(src_address),
             dst_area |-> dst_area, dst_address |-> Address_word(dst_address),
             count |-> count])

TransferCommand_to_bytes(c) ==
    FinsHeader_to_bytes(c.header)
      \o <<MRC_MEMORY_READ, SRC_MEMORY_TRANSFER, word_code(c.src_area)>>
      \o Address_to_bytes(c.src_address)
      \o <<word_code(c.dst_area)>>
      \o Address_to_bytes(c.dst_address)
      \o <<c.count \div 256, c.count % 256>>

ForceSpec_code(spec) ==
    CASE spec = "ForceOff" -> 0
      [] spec = "ForceOn" -> 1
      [] spec = "Release" -> 32768

ForcedValidate_first_only(specs, i) ==
    IF i > Len(specs) THEN Ok(Unit)
    ELSE IF ~bit_code(specs[i].area).ok THEN bit_code(specs[i].area)
    ELSE IF specs[i].bit > 15 THEN Err(invalid_parameter("bit", "must be 0-15"))
    ELSE Ok(Unit)

\* the validation loop of ForcedSetResetCommand::new over specs[i..]
RECURSIVE ForcedValidate(_, _)
ForcedValidate(specs, i) ==
    IF i > Len(specs) THEN Ok(Unit)
    ELSE IF ~bit_code(specs[i].area).ok THEN bit_code(specs[i].area)
    ELSE IF specs[i].bit > 15 THEN Err(invalid_parameter("bit", "must be 0-15"))
    ELSE ForcedValidate(specs, i + 1)

ForcedSetResetCommand_new(destination, source, s, specs) ==
    IF Len(specs) = 0
    THEN Err(invalid_parameter("specs", "must not be empty"))
    ELSE IF ~ForcedValidate(specs, 1).ok THEN ForcedValidate(specs, 1)
    ELSE Ok([kind |-> "ForcedSetReset",
             header |-> FinsHeader_new_command(destination, source, s),
             specs |-> specs])

\* the encoding loop of ForcedSetResetCommand::to_bytes over specs[i..]
RECURSIVE ForcedEncode(_, _)
ForcedEncode(specs, i) ==
    IF i > Len(specs) THEN Ok(<<>>)
    ELSE IF ~bit_code(specs[i].area).ok THEN bit_code(specs[i].area)
    ELSE LET rest == ForcedEncode(specs, i + 1)
             code == ForceSpec_code(specs[i].spec)
         IN IF ~rest.ok THEN rest
            ELSE Ok(<<code \div 256, code % 256, bit_code(specs[i].area).val,
                      specs[i].address \div 256, specs[i].address % 256,
                      specs[i].bit>> \o rest.val)

ForcedSetResetCommand_to_bytes(c) ==
    LET body == ForcedEncode(c.specs, 1)
    IN IF ~body.ok THEN body
       ELSE Ok(FinsHeader_to_bytes(c.header)
                 \o <<MRC_FORCED, SRC_FORCED_SET_RESET>>
                 \o <<(Len(c.specs) \div 256) % 256, Len(c.specs) % 256>>
                 \o body.val)

ForcedSetResetCancelCommand_new(destination, source, s) ==
    [kind |-> "ForcedSetResetCancel",
     header |-> FinsHeader_new_command(destination, source, s)]

ForcedSetResetCancelCommand_to_bytes(c) ==
    FinsHeader_to_bytes(c.header) \o <<MRC_FORCED, SRC_FORCED_CANCEL>>

\* the validation loop of MultipleReadCommand::new over specs[i..]
RECURSIVE MultiValidate(_, _)
MultiValidate(specs, i) ==
    IF i > Len(specs) THEN Ok(Unit)
    ELSE IF specs[i].bit # None /\ ~bit_code(specs[i].area).ok
    THEN bit_code(specs[i].area)
    ELSE IF specs[i].bit # None /\ specs[i].bit > 15
    THEN Err(invalid_parameter("bit", "must be 0-15"))
    ELSE MultiValidate(specs, i + 1)

MultipleReadCommand_new(destination, source, s, specs) ==
    IF Len(specs) = 0
    THEN Err(invalid_parameter("specs", "must not be empty"))
    ELSE IF ~MultiValidate(specs, 1).ok THEN MultiValidate(specs, 1)
    ELSE Ok([kind |-> "MultipleRead",
             header |-> FinsHeader_new_command(destination, source, s),
             specs |-> specs])

\* the encoding loop of MultipleReadCommand::to_bytes over specs[i..]
RECURSIVE MultiEncode(_, _)
MultiEncode(specs, i) ==
    IF i > Len(specs) THEN Ok(<<>>)
    ELSE IF specs[i].bit # None /\ ~bit_code(specs[i].area).ok
    THEN bit_code(specs[i].area)
    ELSE LET rest == MultiEncode(specs, i + 1)
             one == IF specs[i].bit # None
                    THEN <<bit_code(specs[i].area).val, specs[i].address \div 256,
                           specs[i].address % 256, specs[i].bit>>
                    ELSE <<word_code(specs[i].area), specs[i].address \div 256,
                           specs[i].address % 256, 0>>
         IN IF ~rest.ok THEN rest ELSE Ok(one \o rest.val)

MultipleReadCommand_to_bytes(c) ==
    LET body == MultiEncode(c.specs, 1)
    IN IF ~body.ok THEN body
       ELSE Ok(FinsHeader_to_bytes(c.header)
                 \o <<MRC_MEMORY_READ, SRC_MULTIPLE_READ>> \o body.val)

(***************************************************************************)
(* response.rs                                                             *)
(***************************************************************************)
FinsResponse_from_bytes(data) ==
    IF Len(data) < MIN_RESPONSE_SIZE
    THEN Err(invalid_response("response too short"))
    ELSE LET h == FinsHeader_from_bytes(SubSeq(data, 1, FINS_HEADER_SIZE))
         IN IF ~h.ok THEN h
            ELSE Ok([header |-> h.val,
                     mrc |-> data[FINS_HEADER_SIZE + 1],
                     src |-> data[FINS_HEADER_SIZE + 2],
                     main_code |-> data[FINS_HEADER_SIZE + 3],
                     sub_code |-> data[FINS_HEADER_SIZE + 4],
                     data |-> SubSeq(data, MIN_RESPONSE_SIZE + 1, Len(data))])

is_success(r) == r.main_code = 0 /\ r.sub_code = 0

check_error_warning_without_data(r) ==
    IF is_success(r) THEN Ok(Unit)
    ELSE IF r.main_code = 0 /\ r.sub_code = 64 THEN Ok(Unit)
    ELSE Err(plc_error(r.main_code, r.sub_code))

check_error(r) ==
    IF is_success(r) THEN Ok(Unit)
    ELSE IF r.main_code = 0 /\ r.sub_code = 64 /\ Len(r.data) # 0 THEN Ok(Unit)
    ELSE Err(plc_error(r.main_code, r.sub_code))

check_sid(r, expected) ==
    IF r.header.sid = expected THEN Ok(Unit)
    ELSE Err(sid_mismatch(expected, r.header.sid))

to_words(r) ==
    IF Len(r.data) % 2 # 0
    THEN Err(invalid_response("data length must be even for word conversion"))
    ELSE Ok([i \in 1..(Len(r.data) \div 2) |->
                r.data[2 * i - 1] * 256 + r.data[2 * i]])

to_bit(r) ==
    IF Len(r.data) = 0
    THEN Err(invalid_response("no data for bit conversion"))
    ELSE Ok(r.data[1] # 0)

(***************************************************************************)
(* transport.rs: the outcome of one blocking UdpTransport::send_receive.   *)
(* The socket either delivers a datagram, times out or fails.              *)
(***************************************************************************)
UdpTransport_send_receive(r) ==
    CASE r.kind = "data" -> Ok(r.bytes)
      [] r.kind = "timeout" -> Err(Timeout)
      [] r.kind = "io" -> Err(Io)

\* drain_pending discards every datagram already queued at the socket
UdpTransport_drain_pending(queued) == 0

(***************************************************************************)
(* client.rs: the SID counter and the retry loop.                          *)
(***************************************************************************)
Source == NodeAddress_new(0, 1, 0)
Destination == NodeAddress_new(0, 10, 0)

next_sid_no_wrap(counter) == [sid |-> counter, counter |-> counter + 1]

next_sid_no_increment(counter) == [sid |-> counter, counter |-> counter]

next_sid_wraps_early(counter) == [sid |-> counter, counter |-> (counter + 1) % 128]

next_sid(counter) == [sid |-> counter, counter |-> (counter + 1) % 256]

\* the head of the retry loop: pending datagrams are drained before the send
\* of every iteration but the first
drains_before_send_always(att) == TRUE

drains_before_send(att) == att > 0

\* One pass of send_receive_with_sid after transport.send_receive returned r:
\* att <= MAX_SID_RETRIES is an iteration of the loop, a larger att is the
\* final attempt after the loop.  "retry" stands for falling through to the
\* next drain + send.
send_receive_with_sid_retries_errors(att, r, expected_sid) ==
    LET response_bytes == UdpTransport_send_receive(r)
        response == IF response_bytes.ok
                    THEN FinsResponse_from_bytes(response_bytes.val)
                    ELSE response_bytes
    IN IF ~response.ok
       THEN IF att <= MAX_SID_RETRIES THEN [act |-> "retry"]
            ELSE [act |-> "err", err |-> response.err]
       ELSE IF att <= MAX_SID_RETRIES
       THEN IF response.val.header.sid = expected_sid
            THEN [act |-> "ok", response |-> response.val]
            ELSE [act |-> "retry"]
       ELSE [act |-> "err",
             err |-> sid_mismatch(expected_sid, response.val.header.sid)]

send_receive_with_sid_any_sid(att, r, expected_sid) ==
    LET response_bytes == UdpTransport_send_receive(r)
        response == IF response_bytes.ok
                    THEN FinsResponse_from_bytes(response_bytes.val)
                    ELSE response_bytes
    IN IF ~response.ok
       THEN [act |-> "err", err |-> response.err]
       ELSE [act |-> "ok", response |-> response.val]

send_receive_with_sid(att, r, expected_sid) ==
    LET response_bytes == UdpTransport_send_receive(r)
        response == IF response_bytes.ok
                    THEN FinsResponse_from_bytes(response_bytes.val)
                    ELSE response_bytes
    IN IF ~response.ok
       THEN [act |-> "err", err |-> response.err]
       ELSE IF att <= MAX_SID_RETRIES
       THEN IF response.val.header.sid = expected_sid
            THEN [act |-> "ok", response |-> response.val]
            ELSE [act |-> "retry"]
       ELSE [act |-> "err",
             err |-> sid_mismatch(expected_sid, response.val.header.sid)]

(***************************************************************************)
(* client.rs: typed helpers (word and byte swaps).                         *)
(***************************************************************************)
u16_from_be_bytes(hi, lo) == hi * 256 + lo

write_f32_words_unswapped(bytes) ==
    <<u16_from_be_bytes(bytes[1], bytes[2]), u16_from_be_bytes(bytes[3], bytes[4])>>

write_f32_words(bytes) ==
    <<u16_from_be_bytes(bytes[3], bytes[4]), u16_from_be_bytes(bytes[1], bytes[2])>>

write_f64_words(bytes) ==
    <<u16_from_be_bytes(bytes[7], bytes[8]), u16_from_be_bytes(bytes[5], bytes[6]),
      u16_from_be_bytes(bytes[3], bytes[4]), u16_from_be_bytes(bytes[1], bytes[2])>>

write_i32_words(bytes) ==
    <<u16_from_be_bytes(bytes[1], bytes[2]), u16_from_be_bytes(bytes[3], bytes[4])>>

write_string_words_high_first(bytes) ==
    [i \in 1..((Len(bytes) + 1) \div 2) |->
        LET high == bytes[2 * i - 1]
            low == IF 2 * i <= Len(bytes) THEN bytes[2 * i] ELSE 0
        IN (high * 256 + low) % 65536]

write_string_words(bytes) ==
    [i \in 1..((Len(bytes) + 1) \div 2) |->
        LET low == bytes[2 * i - 1]
            high == IF 2 * i <= Len(bytes) THEN bytes[2 * i] ELSE 0
        IN (high * 256 + low) % 65536]

\* words[k] with Rust's bounds check; the index expressions are evaluated in
\* source order, so the first one out of bounds aborts
read_f32_bytes(words) ==
    IF Len(words) < 2 THEN Panic
    ELSE [tag |-> "Ok",
          value |-> <<words[2] \div 256, words[2] % 256,
                      words[1] \div 256, words[1] % 256>>]

read_f64_bytes(words) ==
    IF Len(words) < 4 THEN Panic
    ELSE [tag |-> "Ok",
          value |-> <<words[4] \div 256, words[4] % 256,
                      words[3] \div 256, words[3] % 256,
                      words[2] \div 256, words[2] % 256,
                      words[1] \div 256, words[1] % 256>>]

read_i32_bytes(words) ==
    IF Len(words) < 2 THEN Panic
    ELSE [tag |-> "Ok",
          value |-> <<words[1] \div 256, words[1] % 256,
                      words[2] \div 256, words[2] % 256>>]

RECURSIVE TrimNul(_)
TrimNul(bytes) ==
    IF Len(bytes) > 0 /\ bytes[Len(bytes)] = 0
    THEN TrimNul(SubSeq(bytes, 1, Len(bytes) - 1))
    ELSE bytes

\* A String is the sequence of its UTF-8 bytes.  String::from_utf8_lossy
\* returns the bytes as they are when they are valid UTF-8; otherwise every
\* maximal invalid prefix of a character becomes U+FFFD (EF BF BD).
IsCont(b) == b \in 128..191

Utf8Width(b) ==
    IF b \in 0..127 THEN 1
    ELSE IF b \in 194..223 THEN 2
    ELSE IF b \in 224..239 THEN 3
    ELSE IF b \in 240..244 THEN 4
    ELSE 0

\* the second byte a lead byte admits
SecondOk(b1, b2) ==
    CASE b1 \in 194..223 -> b2 \in 128..191
      [] b1 = 224 -> b2 \in 160..191
      [] b1 \in 225..236 -> b2 \in 128..191
      [] b1 = 237 -> b2 \in 128..159
      [] b1 \in 238..239 -> b2 \in 128..191
      [] b1 = 240 -> b2 \in 144..191
      [] b1 \in 241..243 -> b2 \in 128..191
      [] b1 = 244 -> b2 \in 128..143
      [] OTHER -> FALSE

ByteAt(bytes, i) == IF i <= Len(bytes) THEN bytes[i] ELSE None

\* the chunk that starts at position i: a character, or an invalid prefix
Utf8Chunk(bytes, i) ==
    LET w == Utf8Width(bytes[i])
    IN IF w = 0 THEN [len |-> 1, valid |-> FALSE]
       ELSE IF w = 1 THEN [len |-> 1, valid |-> TRUE]
       ELSE IF ~SecondOk(bytes[i], ByteAt(bytes, i + 1)) THEN [len |-> 1, valid |-> FALSE]
       ELSE IF w = 2 THEN [len |-> 2, valid |-> TRUE]
       ELSE IF ~IsCont(ByteAt(bytes, i + 2)) THEN [len |-> 2, valid |-> FALSE]
       ELSE IF w = 3 THEN [len |-> 3, valid |-> TRUE]
       ELSE IF ~IsCont(ByteAt(bytes, i + 3)) THEN [len |-> 3, valid |-> FALSE]
       ELSE [len |-> 4, valid |-> TRUE]

\* every byte is the start of a character or lies inside the character that
\* the nearest lead byte before it starts
Utf8Valid(bytes) ==
    \A i \in 1..Len(bytes) :
        IF IsCont(bytes[i])
        THEN \E j \in 1..(i - 1) :
                /\ i - j <= 3
                /\ ~IsCont(bytes[j])
                /\ \A k \in (j + 1)..(i - 1) : IsCont(bytes[k])
                /\ Utf8Chunk(bytes, j).valid
                /\ Utf8Chunk(bytes, j).len > i - j
        ELSE Utf8Chunk(bytes, i).valid

RECURSIVE Utf8Lossy(_, _)
Utf8Lossy(bytes, i) ==
    IF i > Len(bytes) THEN <<>>
    ELSE LET c == Utf8Chunk(bytes, i)
         IN (IF c.valid THEN SubSeq(bytes, i, i + c.len - 1) ELSE <<239, 191, 189>>)
              \o Utf8Lossy(bytes, i + c.len)

from_utf8_lossy(bytes) ==
    IF Utf8Valid(bytes) THEN bytes ELSE Utf8Lossy(bytes, 1)

read_string_value(words) ==
    LET bytes == [i \in 1..(2 * Len(words)) |->
                    IF i % 2 = 1 THEN words[(i + 1) \div 2] % 256
                                 ELSE words[i \div 2] \div 256]
    IN [tag |-> "Ok", value |-> from_utf8_lossy(TrimNul(bytes))]

(***************************************************************************)
(* client.rs: the public operations.                                       *)
(***************************************************************************)
ReadOp(area, address, count) ==
    [name |-> "read", area |-> area, address |-> address, count |-> count]
WriteOp(area, address, data) ==
    [name |-> "write", area |-> area, address |-> address, data |-> data]

\* The typed helpers validate and convert their operands and then call read or
\* write; the other operations are primitive.
Primitive(o) ==
    CASE o.name = "read_f32" -> Ok(ReadOp(o.area, o.address, 2))
      [] o.name = "read_f64" -> Ok(ReadOp(o.area, o.address, 4))
      [] o.name = "read_i32" -> Ok(ReadOp(o.area, o.address, 2))
      [] o.name = "read_string" -> Ok(ReadOp(o.area, o.address, o.word_count))
      [] o.name = "write_f32" -> Ok(WriteOp(o.area, o.address, write_f32_words(o.value)))
      [] o.name = "write_f64" -> Ok(WriteOp(o.area, o.address, write_f64_words(o.value)))
      [] o.name = "write_i32" -> Ok(WriteOp(o.area, o.address, write_i32_words(o.value)))
      [] o.name = "write_string" ->
            IF Len(o.value) = 0
            THEN Err(invalid_parameter("value", "string cannot be empty"))
            ELSE IF (Len(o.value) + 1) \div 2 > MAX_WORDS_PER_COMMAND
            THEN Err(invalid_parameter("value", "string too long"))
            ELSE Ok(WriteOp(o.area, o.address, write_string_words(o.value)))
      [] OTHER -> Ok(o)

\* command construction followed by to_bytes, as each primitive operation does
Build(p, s) ==
    CASE p.name = "read" ->
            LET c == ReadWordCommand_new(Destination, Source, s, p.area, p.address, p.count)
            IN IF ~c.ok THEN c ELSE Ok(ReadWordCommand_to_bytes(c.val))
      [] p.name = "write" ->
            LET c == WriteWordCommand_new(Destination, Source, s, p.area, p.address, p.data)
            IN IF ~c.ok THEN c ELSE Ok(WriteWordCommand_to_bytes(c.val))
      [] p.name = "read_bit" ->
            LET c == ReadBitCommand_new(Destination, Source, s, p.area, p.address, p.bit)
            IN IF ~c.ok THEN c ELSE ReadBitCommand_to_bytes(c.val)
      [] p.name = "write_bit" ->
            LET c == WriteBitCommand_new(Destination, Source, s, p.area, p.address,
                                         p.bit, p.value)
            IN IF ~c.ok THEN c ELSE WriteBitCommand_to_bytes(c.val)
      [] p.name = "fill" ->
            LET c == FillCommand_new(Destination, Source, s, p.area, p.address,
                                     p.count, p.value)
            IN IF ~c.ok THEN c ELSE Ok(FillCommand_to_bytes(c.val))
      [] p.name = "run" ->
            Ok(RunCommand_to_bytes(RunCommand_new(Destination, Source, s, p.mode)))
      [] p.name = "stop" ->
            Ok(StopCommand_to_bytes(StopCommand_new(Destination, Source, s)))
      [] p.name = "transfer" ->
            LET c == TransferCommand_new(Destination, Source, s, p.src_area,
                                         p.src_address, p.dst_area, p.dst_address,
                                         p.count)
            IN IF ~c.ok THEN c ELSE Ok(TransferCommand_to_bytes(c.val))
      [] p.name = "forced_set_reset" ->
            LET c == ForcedSetResetCommand_new(Destination, Source, s, p.specs)
            IN IF ~c.ok THEN c ELSE ForcedSetResetCommand_to_bytes(c.val)
      [] p.name = "forced_set_reset_cancel" ->
            Ok(ForcedSetResetCancelCommand_to_bytes(
                   ForcedSetResetCancelCommand_new(Destination, Source, s)))
      [] p.name = "read_multiple" ->
            LET c == MultipleReadCommand_new(Destination, Source, s, p.specs)
            IN IF ~c.ok THEN c ELSE MultipleReadCommand_to_bytes(c.val)

\* payload extraction of a primitive operation
Extract(p, response) ==
    CASE p.name \in {"read", "read_multiple"} -> to_words(response)
      [] p.name = "read_bit" -> to_bit(response)
      [] OTHER -> Ok(Unit)

\* what a typed helper makes of the words read returned
Convert(o, v) ==
    CASE o.name = "read_f32" -> read_f32_bytes(v)
      [] o.name = "read_f64" -> read_f64_bytes(v)
      [] o.name = "read_i32" -> read_i32_bytes(v)
      [] o.name = "read_string" -> read_string_value(v)
      [] OTHER -> [tag |-> "Ok", value |-> v]

\* the tail of an operation once send_receive_with_sid returned Ok(response)
Finish(o, response) ==
    LET ce == check_error(response)
    IN IF ~ce.ok THEN ce.err
       ELSE LET x == Extract(Primitive(o).val, response)
            IN IF ~x.ok THEN x.err ELSE Convert(o, x.val)

(***************************************************************************)
(* Inputs: operations with their operands, and what the transport returns. *)
(***************************************************************************)
SeqsUpTo(S, n) == UNION {[1..k -> S] : k \in 0..n}

Counts == {0, 1, MAX_WORDS_PER_COMMAND, MAX_WORDS_PER_COMMAND + 1}
Words(n) == [i \in 1..n |-> 4660]
Str(n) == [i \in 1..n |-> 65]
StrLens == {0, 1, 2, 2 * MAX_WORDS_PER_COMMAND, 2 * MAX_WORDS_PER_COMMAND + 1}
BitAreas == {"CIO", "DM"}
Bits == {5, 16}

ForcedBits ==
    {[area |-> "CIO", address |-> 0, bit |-> 0, spec |-> "ForceOn"],
     [area |-> "DM", address |-> 0, bit |-> 0, spec |-> "ForceOff"],
     [area |-> "CIO", address |-> 0, bit |-> 16, spec |-> "Release"]}

MultiReadSpecs ==
    {[area |-> "DM", address |-> 100, bit |-> None],
     [area |-> "CIO", address |-> 0, bit |-> 5],
     [area |-> "DM", address |-> 0, bit |-> 0],
     [area |-> "CIO", address |-> 0, bit |-> 16]}

Ops ==
    {ReadOp("DM", 100, c) : c \in Counts}
    \cup {WriteOp("DM", 100, Words(c)) : c \in Counts}
    \cup {[name |-> "read_bit", area |-> a, address |-> 0, bit |-> b] :
            a \in BitAreas, b \in Bits}
    \cup {[name |-> "write_bit", area |-> a, address |-> 0, bit |-> b, value |-> TRUE] :
            a \in BitAreas, b \in Bits}
    \cup {[name |-> "fill", area |-> "DM", address |-> 100, count |-> c, value |-> 0] :
            c \in Counts}
    \cup {[name |-> "run", mode |-> "Monitor"], [name |-> "stop"],
          [name |-> "forced_set_reset_cancel"]}
    \cup {[name |-> "transfer", src_area |-> "DM", src_address |-> 100,
           dst_area |-> "DM", dst_address |-> 200, count |-> c] : c \in Counts}
    \cup {[name |-> "forced_set_reset", specs |-> q] : q \in SeqsUpTo(ForcedBits, MaxSpecs)}
    \cup {[name |-> "read_multiple", specs |-> q] : q \in SeqsUpTo(MultiReadSpecs, MaxSpecs)}
    \cup {[name |-> n, area |-> "DM", address |-> 100] :
            n \in {"read_f32", "read_f64", "read_i32"}}
    \cup {[name |-> "write_f32", area |-> "DM", address |-> 100,
           value |-> <<64, 73, 15, 208>>],
          [name |-> "write_i32", area |-> "DM", address |-> 100,
           value |-> <<255, 254, 29, 192>>],
          [name |-> "write_f64", area |-> "DM", address |-> 100,
           value |-> <<64, 9, 33, 251, 84, 68, 45, 24>>]}
    \cup {[name |-> "write_string", area |-> "DM", address |-> 100, value |-> Str(n)] :
            n \in StrLens}
    \cup {[name |-> "read_string", area |-> "DM", address |-> 100, word_count |-> c] :
            c \in Counts}

\* the operations of the long-running specification of the SID counter
SidOps ==
    {ReadOp("DM", 100, 0), ReadOp("DM", 100, 1), [name |-> "stop"],
     [name |-> "read_bit", area |-> "DM", address |-> 0, bit |-> 5],
     [name |-> "read_f32", area |-> "DM", address |-> 100],
     [name |-> "write_f32", area |-> "DM", address |-> 100, value |-> <<64, 73, 15, 208>>],
     [name |-> "write_string", area |-> "DM", address |-> 100, value |-> Str(0)],
     [name |-> "write_string", area |-> "DM", address |-> 100, value |-> Str(2)],
     [name |-> "write_string", area |-> "DM", address |-> 100,
      value |-> Str(2 * MAX_WORDS_PER_COMMAND + 1)]}

\* a response datagram: header, MRC, SRC, status pair, payload
Datagram(rsid, main_code, sub_code, payload) ==
    <<192, 0, 2, 0, 1, 0, 0, 10, 0, rsid, 1, 1, main_code, sub_code>> \o payload

Payload(n) == [i \in 1..n |-> 18]

Statuses == {<<0, 0>>, <<0, 64>>, <<1, 1>>, <<64, 0>>}

MatchDatagrams(s) ==
    {Datagram(s, st[1], st[2], pl) :
        st \in Statuses, pl \in {Payload(n) : n \in 0..MaxPayloadLen} \cup {<<0>>}}

StaleSids(s) == {(s + 255) % 256, (s + 1) % 256}

StaleDatagrams(s) ==
    {Datagram(x, st[1], st[2], pl) :
        x \in StaleSids(s), st \in {<<0, 0>>, <<1, 1>>}, pl \in {Payload(0), Payload(2)}}

ShortDatagrams(s) ==
    {<<>>, SubSeq(Datagram(s, 0, 0, <<>>), 1, MIN_RESPONSE_SIZE - 1)}

Datagrams(s) == MatchDatagrams(s) \cup StaleDatagrams(s) \cup ShortDatagrams(s)

SidDatagrams(s) ==
    {Datagram(s, 0, 0, Payload(2)), Datagram((s + 255) % 256, 0, 0, Payload(2))}

TransportResults_never_returns(dgrams) == {}

TransportResults(dgrams) ==
    {[kind |-> "data", bytes |-> d] : d \in dgrams}
    \cup {[kind |-> "timeout", bytes |-> <<>>], [kind |-> "io", bytes |-> <<>>]}

\* how the datagram returned by the transport relates to the call's SID
RxClass(r, expected) ==
    CASE r.kind = "timeout" -> "timeout"
      [] r.kind = "io" -> "io"
      [] r.kind = "data" /\ Len(r.bytes) < 14 -> "short"
      [] r.kind = "data" /\ Len(r.bytes) >= 14 /\ r.bytes[10] = expected -> "match"
      [] OTHER -> "stale"

(***************************************************************************)
(* The client as a state machine.                                          *)
(***************************************************************************)
NoOp == [name |-> "none"]
NoResult == [tag |-> "None"]
NoResp == <<>>

\* the threads that share one client
Threads == {"A", "B"}

\* a thread that is not inside a call; idx is the position in allocs of the
\* SID the call obtained, got is the last datagram the call received: its
\* class and the call (by idx) whose request the device answered with it,
\* prev is how the thread's previous call ended
NoCall == 0 - 1
IdleThread ==
    [pc |-> "idle", op |-> NoOp, sid |-> NoSid, idx |-> NoCall, buf |-> <<>>,
     attempt |-> 0, got |-> [cls |-> "none", from |-> NoCall],
     result |-> NoResult, prev |-> "None"]

\* Client::new: the socket is drained and the counter starts at 0
Init ==
    /\ sid_counter = 0
    /\ pending = UdpTransport_drain_pending(0)
    /\ pc = "idle"
    /\ op = NoOp
    /\ sid = NoSid
    /\ buf = <<>>
    /\ attempt = 0
    /\ sends = 0
    /\ sent = <<>>
    /\ drains = 0
    /\ ev = <<>>
    /\ resp = NoResp
    /\ result = NoResult
    /\ nalloc = 0
    /\ pin = <<>>
    /\ pout = <<>>
    /\ th = [t \in Threads |-> IdleThread]
    /\ allocs = <<>>
    /\ wire = <<>>
    /\ sockq = <<>>
    /\ ndup = 0

\* A public operation is called: it runs up to its first transport.send_receive
\* or returns a local validation error.
Invoke(ops, bound) ==
    /\ pc = "idle"
    /\ nalloc < bound
    /\ \E o \in ops :
        LET pre == Primitive(o)
            a == next_sid(sid_counter)
            b == Build(pre.val, a.sid)
            pe == IF o.name = "write_string" THEN <<"validate">> ELSE <<>>
            dr == drains_before_send(0)
        IN /\ op' = o
           /\ attempt' = 0
           /\ resp' = NoResp
           /\ IF ~pre.ok
              THEN /\ pc' = "done"
                   /\ result' = pre.err
                   /\ ev' = pe
                   /\ sends' = 0
                   /\ sent' = <<>>
                   /\ drains' = 0
                   /\ UNCHANGED <<sid_counter, nalloc, sid, buf, pending>>
              ELSE /\ sid_counter' = a.counter
                   /\ nalloc' = nalloc + 1
                   /\ sid' = a.sid
                   /\ IF ~b.ok
                      THEN /\ pc' = "done"
                           /\ result' = b.err
                           /\ ev' = pe \o <<"alloc", "construct">>
                           /\ sends' = 0
                           /\ sent' = <<>>
                           /\ drains' = 0
                           /\ UNCHANGED <<buf, pending>>
                      ELSE /\ pc' = "wait"
                           /\ result' = NoResult
                           /\ ev' = pe \o <<"alloc", "construct">>
                                      \o (IF dr THEN <<"drain">> ELSE <<>>) \o <<"send">>
                           /\ sends' = 1
                           /\ sent' = <<b.val>>
                           /\ drains' = IF dr THEN 1 ELSE 0
                           /\ pending' = IF dr THEN UdpTransport_drain_pending(pending)
                                         ELSE pending
                           /\ buf' = b.val
    /\ UNCHANGED <<pin, pout, cvars>>

\* transport.send_receive returns and send_receive_with_sid runs on: it returns
\* to the operation, which finishes, or it drains the socket and sends again.
Receive(dgrams) ==
    /\ pc = "wait"
    /\ \E r \in TransportResults(dgrams) :
        LET d == send_receive_with_sid(attempt, r, sid)
            queued == IF r.kind = "data" /\ pending > 0 THEN pending - 1 ELSE pending
            decoded == IF r.kind = "data" THEN FinsResponse_from_bytes(r.bytes)
                       ELSE Err(Unit)
            \* the drain at the top of the next iteration, or the one after the loop
            dr == attempt + 1 > MAX_SID_RETRIES \/ drains_before_send(attempt + 1)
        IN /\ r.kind = "timeout" => pending = 0
           /\ resp' = IF decoded.ok THEN decoded.val ELSE NoResp
           /\ CASE d.act = "ok" ->
                    /\ pc' = "done"
                    /\ result' = Finish(op, d.response)
                    /\ ev' = Append(ev, RxClass(r, sid))
                    /\ pending' = queued
                    /\ UNCHANGED <<attempt, sends, sent, drains>>
                [] d.act = "err" ->
                    /\ pc' = "done"
                    /\ result' = d.err
                    /\ ev' = Append(ev, RxClass(r, sid))
                    /\ pending' = queued
                    /\ UNCHANGED <<attempt, sends, sent, drains>>
                [] d.act = "retry" ->
                    /\ pc' = "wait"
                    /\ attempt' = attempt + 1
                    /\ pending' = IF dr THEN UdpTransport_drain_pending(queued)
                                  ELSE queued
                    /\ drains' = IF dr THEN drains + 1 ELSE drains
                    /\ sends' = sends + 1
                    /\ sent' = Append(sent, buf)
                    /\ ev' = ev \o <<RxClass(r, sid)>>
                               \o (IF dr THEN <<"drain">> ELSE <<>>) \o <<"send">>
                    /\ UNCHANGED result
    /\ UNCHANGED <<sid_counter, nalloc, op, sid, buf, pin, pout, cvars>>

\* the operation hands its result to the caller; the client is idle again
Return ==
    /\ pc = "done"
    /\ pc' = "idle"
    /\ op' = NoOp
    /\ sid' = NoSid
    /\ buf' = <<>>
    /\ attempt' = 0
    /\ sends' = 0
    /\ sent' = <<>>
    /\ drains' = 0
    /\ ev' = <<>>
    /\ resp' = NoResp
    /\ result' = NoResult
    /\ UNCHANGED <<sid_counter, pending, nalloc, pin, pout, cvars>>

\* a datagram reaches the socket while nobody reads it
Arrive ==
    /\ pc \in {"idle", "wait", "done"}
    /\ pending < MaxPending
    /\ pending' = pending + 1
    /\ UNCHANGED <<sid_counter, pc, op, sid, buf, attempt, sends, sent, drains, ev,
                   resp, result, nalloc, pin, pout, cvars>>

Next ==
    \/ Invoke(Ops, MaxAllocs)
    \/ Receive(Datagrams(sid))
    \/ Return
    \/ Arrive

Spec == Init /\ [][Next]_vars

\* Every transport.send_receive returns: socket.recv blocks for the read
\* timeout at most, so a call that waits is always taken further.
NextLive ==
    \/ Invoke(SidOps, MaxAllocs)
    \/ Receive(Datagrams(sid))
    \/ Return
    \/ Arrive

SpecLive == Init /\ [][NextLive]_vars /\ WF_vars(Receive(Datagrams(sid)))

\* the same client over many calls, to see the counter wrap
NextSid ==
    \/ Invoke(SidOps, MaxSidAllocs)
    \/ Receive(SidDatagrams(sid))
    \/ Return

SpecSid == Init /\ [][NextSid]_vars

(***************************************************************************)
(* One client shared by several threads.  Every method takes &self, so the *)
(* calls of different threads interleave at the atomic fetch_add of        *)
(* next_sid and at the socket calls send and recv of the transport.        *)
(***************************************************************************)

\* the state of the sequential client, which the threads leave alone
seqvars == <<pending, pc, op, sid, buf, attempt, sends, sent, drains, ev, resp,
             result, nalloc, pin, pout>>

\* what the device answers to a request: the SID echoed, normal completion
DeviceReply(request) == Datagram(request[10], 0, 0, Payload(2))

\* Thread t enters an operation: the typed helper checks its operand, then
\* next_sid (one atomic fetch_add) and the command construction.
CallT(t, ops, bound) ==
    /\ th[t].pc = "idle"
    /\ Len(allocs) < bound
    /\ \E o \in ops :
        LET pre == Primitive(o)
            a == next_sid(sid_counter)
            b == Build(pre.val, a.sid)
        IN IF ~pre.ok
           THEN /\ th' = [th EXCEPT ![t] = [IdleThread EXCEPT
                                !.pc = "done", !.op = o, !.result = pre.err,
                                !.prev = th[t].prev]]
                /\ UNCHANGED <<sid_counter, allocs>>
           ELSE /\ sid_counter' = a.counter
                /\ allocs' = Append(allocs, a.sid)
                /\ th' = [th EXCEPT ![t] = [IdleThread EXCEPT
                                !.pc = IF b.ok THEN "send" ELSE "done",
                                !.op = o,
                                !.sid = a.sid,
                                !.idx = Len(allocs) + 1,
                                !.buf = IF b.ok THEN b.val ELSE <<>>,
                                !.result = IF b.ok THEN NoResult ELSE b.err,
                                !.prev = th[t].prev]]
    /\ UNCHANGED <<wire, sockq, ndup, seqvars>>

\* The network keeps the datagrams in flight in no order of its own: wire
\* lists them by the call that sent them, a bag written as a sequence.
WireKey(e) == 2 * e.from + (IF e.dup THEN 1 ELSE 0)

OnWire(w, e) ==
    LET k == Cardinality({i \in 1..Len(w) : WireKey(w[i]) <= WireKey(e)})
    IN SubSeq(w, 1, k) \o <<e>> \o SubSeq(w, k + 1, Len(w))

OffWire(w, i) == SubSeq(w, 1, i - 1) \o SubSeq(w, i + 1, Len(w))

\* socket.send of transport.send_receive: the request leaves for the device
SendT(t) ==
    /\ th[t].pc = "send"
    /\ wire' = OnWire(wire, [bytes |-> th[t].buf, from |-> th[t].idx, dup |-> FALSE])
    /\ th' = [th EXCEPT ![t].pc = "recv"]
    /\ UNCHANGED <<sid_counter, allocs, sockq, ndup, seqvars>>

\* socket.recv of transport.send_receive returns the oldest queued datagram,
\* or times out while nothing is queued; send_receive_with_sid then returns
\* to the operation, which finishes, or goes on to drain and send again.
RecvT(t) ==
    /\ th[t].pc = "recv"
    /\ LET r == IF sockq = <<>> THEN [kind |-> "timeout", bytes |-> <<>>]
                ELSE [kind |-> "data", bytes |-> Head(sockq).bytes]
           from == IF sockq = <<>> THEN NoCall ELSE Head(sockq).from
           d == send_receive_with_sid(th[t].attempt, r, th[t].sid)
           got == [cls |-> RxClass(r, th[t].sid), from |-> from]
       IN /\ sockq' = IF sockq = <<>> THEN sockq ELSE Tail(sockq)
          /\ CASE d.act = "ok" ->
                   th' = [th EXCEPT ![t].pc = "done", ![t].got = got,
                                    ![t].result = Finish(th[t].op, d.response)]
               [] d.act = "err" ->
                   th' = [th EXCEPT ![t].pc = "done", ![t].got = got,
                                    ![t].result = d.err]
               [] d.act = "retry" ->
                   th' = [th EXCEPT ![t].pc = "drain", ![t].got = got,
                                    ![t].attempt = th[t].attempt + 1]
    /\ UNCHANGED <<sid_counter, allocs, wire, ndup, seqvars>>

\* transport.drain_pending before the next send
DrainT(t) ==
    /\ th[t].pc = "drain"
    /\ sockq' = SubSeq(sockq, 1, UdpTransport_drain_pending(Len(sockq)))
    /\ th' = [th EXCEPT ![t].pc = "send"]
    /\ UNCHANGED <<sid_counter, allocs, wire, ndup, seqvars>>

\* the operation hands its result to the caller; where keep is set the thread
\* remembers how the call ended
ReturnT(t, keep) ==
    /\ th[t].pc = "done"
    /\ th' = [th EXCEPT ![t] = [IdleThread EXCEPT
                    !.prev = IF keep THEN th[t].result.tag ELSE "None"]]
    /\ UNCHANGED <<sid_counter, allocs, wire, sockq, ndup, seqvars>>

\* the device answers one of the requests in flight, in any order; the reply
\* is queued at the client's socket
Device ==
    \E i \in 1..Len(wire) :
        /\ Len(sockq) < MaxQueued
        /\ wire' = OffWire(wire, i)
        /\ sockq' = Append(sockq, [bytes |-> DeviceReply(wire[i].bytes),
                                   from |-> wire[i].from])
        /\ UNCHANGED <<sid_counter, allocs, th, ndup, seqvars>>

\* the network delivers a request twice, and no datagram more than twice:
\* the device will answer both copies
Duplicate ==
    /\ ndup < MaxDups
    /\ ndup' = ndup + 1
    /\ \E i \in 1..Len(wire) :
          /\ ~wire[i].dup
          /\ LET copy == [wire[i] EXCEPT !.dup = TRUE]
             IN wire' = OnWire(OnWire(OffWire(wire, i), copy), copy)
    /\ UNCHANGED <<sid_counter, allocs, th, sockq, seqvars>>

\* operations of the threads that exchange datagrams with the device
ConcOps == {ReadOp("DM", 100, 1), [name |-> "stop"]}

NextConc ==
    \/ \E t \in Threads : CallT(t, ConcOps, MaxConcAllocs)
    \/ \E t \in Threads : SendT(t)
    \/ \E t \in Threads : RecvT(t)
    \/ \E t \in Threads : DrainT(t)
    \/ \E t \in Threads : ReturnT(t, FALSE)
    \/ Device

SpecConc == Init /\ [][NextConc]_vars

\* the same threads over a network that also duplicates datagrams
NetOps == {ReadOp("DM", 100, 1)}

NextNet ==
    \/ \E t \in Threads : CallT(t, NetOps, MaxConcAllocs)
    \/ \E t \in Threads : SendT(t)
    \/ \E t \in Threads : RecvT(t)
    \/ \E t \in Threads : DrainT(t)
    \/ \E t \in Threads : ReturnT(t, FALSE)
    \/ Device
    \/ Duplicate

SpecNet == Init /\ [][NextNet]_vars

\* One thread calling the client, one call after the other.  The device
\* answers every request once; the network delays a reply for any time, also
\* past the read timeout, and neither drops nor duplicates.
NextSeq ==
    \/ CallT("A", NetOps, MaxSeqAllocs)
    \/ SendT("A")
    \/ RecvT("A")
    \/ DrainT("A")
    \/ ReturnT("A", TRUE)
    \/ Device

SpecSeq == Init /\ [][NextSeq]_vars

\* operations that return after next_sid and the command constructor, for the
\* long run of the counter under concurrent callers
AllocOps ==
    {ReadOp("DM", 100, 0),
     [name |-> "write_string", area |-> "DM", address |-> 100, value |-> Str(0)]}

NextAlloc ==
    \/ \E t \in Threads : CallT(t, AllocOps, MaxSidAllocs)
    \/ \E t \in Threads : ReturnT(t, FALSE)

SpecAlloc == Init /\ [][NextAlloc]_vars

(***************************************************************************)
(* check_error as a pure function of the status pair and the payload.      *)
(***************************************************************************)
InitCheckError ==
    /\ sid_counter = 0
    /\ pending = 0
    /\ pc = "pure"
    /\ op = NoOp
    /\ sid = NoSid
    /\ buf = <<>>
    /\ attempt = 0
    /\ sends = 0
    /\ sent = <<>>
    /\ drains = 0
    /\ ev = <<>>
    /\ resp = NoResp
    /\ result = NoResult
    /\ nalloc = 0
    /\ pin \in {FinsResponse_from_bytes(Datagram(1, m, s, Payload(n))).val :
                  m \in 0..MaxCode, s \in 0..MaxCode, n \in 0..MaxPayloadLen}
    /\ pout = <<>>
    /\ th = [t \in Threads |-> IdleThread]
    /\ allocs = <<>>
    /\ wire = <<>>
    /\ sockq = <<>>
    /\ ndup = 0

ApplyCheckError ==
    /\ pc = "pure"
    /\ pc' = "pure_done"
    /\ pout' = check_error(pin)
    /\ UNCHANGED <<sid_counter, pending, op, sid, buf, attempt, sends, sent, drains, ev,
                   resp, result, nalloc, pin, cvars>>

NextCheckError == ApplyCheckError

SpecCheckError == InitCheckError /\ [][NextCheckError]_vars

(***************************************************************************)
(* The encoders, decoders and conversions as pure functions: the input is  *)
(* drawn from a set of samples and the function is applied to it once.     *)
(***************************************************************************)
PureInit(inputs) ==
    /\ sid_counter = 0
    /\ pending = 0
    /\ pc = "pure"
    /\ op = NoOp
    /\ sid = NoSid
    /\ buf = <<>>
    /\ attempt = 0
    /\ sends = 0
    /\ sent = <<>>
    /\ drains = 0
    /\ ev = <<>>
    /\ resp = NoResp
    /\ result = NoResult
    /\ nalloc = 0
    /\ pin \in inputs
    /\ pout = <<>>
    /\ th = [t \in Threads |-> IdleThread]
    /\ allocs = <<>>
    /\ wire = <<>>
    /\ sockq = <<>>
    /\ ndup = 0

PureApply(output) ==
    /\ pc = "pure"
    /\ pc' = "pure_done"
    /\ pout' = output
    /\ UNCHANGED <<sid_counter, pending, op, sid, buf, attempt, sends, sent, drains, ev,
                   resp, result, nalloc, pin, cvars>>

\* header.rs: to_bytes followed by from_bytes
HeaderFieldSamples == {0, 255}

Headers ==
    [icf : HeaderFieldSamples, rsv : HeaderFieldSamples, gct : HeaderFieldSamples,
     dna : HeaderFieldSamples, da1 : HeaderFieldSamples, da2 : HeaderFieldSamples,
     sna : HeaderFieldSamples, sa1 : HeaderFieldSamples, sa2 : HeaderFieldSamples,
     sid : HeaderFieldSamples]
    \cup {FinsHeader_new_command(Destination, Source, s) : s \in 0..255}
    \cup {FinsHeader_new_command(NodeAddress_new(1, 2, 3), NodeAddress_new(4, 5, 6), 7)}

InitHeader == PureInit(Headers)

ApplyHeader == PureApply(FinsHeader_from_bytes(FinsHeader_to_bytes(pin)))

NextHeader == ApplyHeader

SpecHeader == InitHeader /\ [][NextHeader]_vars

\* command.rs: the constructors of the word commands and their count check
WordCommandKinds == {"ReadWord", "WriteWord", "Fill", "Transfer"}

WordCommandInputs ==
    {[kind |-> k, count |-> c] : k \in WordCommandKinds, c \in 0..MaxCountInput}
    \cup {[kind |-> k, count |-> 65535] : k \in WordCommandKinds \ {"WriteWord"}}

WordCommand_new(i) ==
    CASE i.kind = "ReadWord" ->
            ReadWordCommand_new(Destination, Source, 1, "DM", 100, i.count)
      [] i.kind = "WriteWord" ->
            WriteWordCommand_new(Destination, Source, 1, "DM", 100, Words(i.count))
      [] i.kind = "Fill" ->
            FillCommand_new(Destination, Source, 1, "DM", 100, i.count, 0)
      [] i.kind = "Transfer" ->
            TransferCommand_new(Destination, Source, 1, "DM", 100, "DM", 200, i.count)

InitWordCommand == PureInit(WordCommandInputs)

ApplyWordCommand == PureApply(WordCommand_new(pin))

NextWordCommand == ApplyWordCommand

SpecWordCommand == InitWordCommand /\ [][NextWordCommand]_vars

\* command.rs: the commands that address bits, constructed and then encoded
BitSamples == {0, 15, 16, 255}

ForcedBitSamples ==
    {[area |-> a, address |-> 100, bit |-> b, spec |-> "ForceOn"] :
        a \in {"CIO", "DM", "AR"}, b \in {0, 15, 16}}
    \cup {[area |-> "WR", address |-> 0, bit |-> 1, spec |-> "ForceOff"],
          [area |-> "HR", address |-> 65535, bit |-> 2, spec |-> "Release"]}

MultiReadSamples ==
    {[area |-> a, address |-> 100, bit |-> b] :
        a \in {"CIO", "DM", "HR"}, b \in {None, 0, 16}}

BitCommandInputs ==
    {[kind |-> "ReadBit", area |-> a, bit |-> b] : a \in MemoryArea, b \in BitSamples}
    \cup {[kind |-> "WriteBit", area |-> a, bit |-> b, value |-> v] :
            a \in MemoryArea, b \in BitSamples, v \in BOOLEAN}
    \cup {[kind |-> "ForcedSetReset", specs |-> q] :
            q \in SeqsUpTo(ForcedBitSamples, MaxSpecsInput)}
    \cup {[kind |-> "MultipleRead", specs |-> q] :
            q \in SeqsUpTo(MultiReadSamples, MaxSpecsInput)}

BitCommand_new(i) ==
    CASE i.kind = "ReadBit" ->
            ReadBitCommand_new(Destination, Source, 1, i.area, 100, i.bit)
      [] i.kind = "WriteBit" ->
            WriteBitCommand_new(Destination, Source, 1, i.area, 100, i.bit, i.value)
      [] i.kind = "ForcedSetReset" ->
            ForcedSetResetCommand_new(Destination, Source, 1, i.specs)
      [] i.kind = "MultipleRead" ->
            MultipleReadCommand_new(Destination, Source, 1, i.specs)

BitCommand_to_bytes(c) ==
    CASE c.kind = "ReadBit" -> ReadBitCommand_to_bytes(c)
      [] c.kind = "WriteBit" -> WriteBitCommand_to_bytes(c)
      [] c.kind = "ForcedSetReset" -> ForcedSetResetCommand_to_bytes(c)
      [] c.kind = "MultipleRead" -> MultipleReadCommand_to_bytes(c)

InitBitCommand == PureInit(BitCommandInputs)

\* to_bytes can only be called on a command the constructor returned
ApplyBitCommand ==
    PureApply(LET c == BitCommand_new(pin)
              IN [cmd |-> c,
                  bytes |-> IF c.ok THEN BitCommand_to_bytes(c.val) ELSE NoResult])

NextBitCommand == ApplyBitCommand

SpecBitCommand == InitBitCommand /\ [][NextBitCommand]_vars

\* command.rs: ReadWordCommand constructed and then encoded
U16Samples == {0, 1, 255, 256, 4660, 65535}

ReadWordInputs ==
    [area : MemoryArea, address : U16Samples,
     count : {0, 1, 10, 255, 256, MAX_WORDS_PER_COMMAND, MAX_WORDS_PER_COMMAND + 1},
     sid : {0, 1, 128, 255}]

InitReadWord == PureInit(ReadWordInputs)

ApplyReadWord ==
    PureApply(LET c == ReadWordCommand_new(Destination, Source, pin.sid, pin.area,
                                           pin.address, pin.count)
              IN [cmd |-> c,
                  bytes |-> IF c.ok THEN ReadWordCommand_to_bytes(c.val) ELSE <<>>])

NextReadWord == ApplyReadWord

SpecReadWord == InitReadWord /\ [][NextReadWord]_vars

\* client.rs: the conversions of write_f32, write_f64, write_i32 and of
\* read_f32, read_f64, read_i32.  A value is its big-endian bytes
\* (to_be_bytes / from_be_bytes), most significant byte first.
ByteSamples == {0, 1, 128, 255}

NumericInputs ==
    {[type |-> t, bytes |-> b] : t \in {"f32", "i32"}, b \in [1..4 -> ByteSamples]}
    \cup {[type |-> t, bytes |-> <<18, 52, 86, 120>>] : t \in {"f32", "i32"}}
    \cup {[type |-> "f64", bytes |-> b] : b \in [1..8 -> {0, 255}]}
    \cup {[type |-> "f64", bytes |-> <<1, 35, 69, 103, 137, 171, 205, 239>>]}

\* the words the write helper hands to write
Numeric_write(type, bytes) ==
    CASE type = "f32" -> write_f32_words(bytes)
      [] type = "f64" -> write_f64_words(bytes)
      [] type = "i32" -> write_i32_words(bytes)

\* what the read helper makes of the words read returned
Numeric_read(type, words) ==
    CASE type = "f32" -> read_f32_bytes(words)
      [] type = "f64" -> read_f64_bytes(words)
      [] type = "i32" -> read_i32_bytes(words)

\* the bytes of the input taken as words received in that order
AsWords(bytes) ==
    [i \in 1..(Len(bytes) \div 2) |-> u16_from_be_bytes(bytes[2 * i - 1], bytes[2 * i])]

InitNumeric == PureInit(NumericInputs)

ApplyNumeric ==
    PureApply([words |-> Numeric_write(pin.type, pin.bytes),
               back |-> Numeric_read(pin.type, Numeric_write(pin.type, pin.bytes)),
               rd |-> Numeric_read(pin.type, AsWords(pin.bytes))])

NextNumeric == ApplyNumeric

SpecNumeric == InitNumeric /\ [][NextNumeric]_vars

\* client.rs: the transforms of write_string and read_string.  The strings
\* are made of the characters NUL, A, e-acute, the euro sign and an emoji
\* (1, 1, 2, 3 and 4 bytes of UTF-8), or are long runs of A.
CharSamples ==
    {<<0>>, <<65>>, <<195, 169>>, <<226, 130, 172>>, <<240, 159, 152, 128>>}

RECURSIVE Concat(_)
Concat(chars) ==
    IF chars = <<>> THEN <<>> ELSE Head(chars) \o Concat(Tail(chars))

StringInputs ==
    {Concat(q) : q \in SeqsUpTo(CharSamples, MaxStrChars)}
    \cup {Str(n) : n \in (2 * MAX_WORDS_PER_COMMAND - 1)..(2 * MAX_WORDS_PER_COMMAND + 1)}
    \cup {Str(2 * MAX_WORDS_PER_COMMAND - 3) \o c : c \in CharSamples}

InitString == PureInit(StringInputs)

\* write_string up to its call of write, and read_string from the return of
\* read, which hands over the same words
ApplyString ==
    PureApply(LET w == Primitive([name |-> "write_string", area |-> "DM",
                                  address |-> 100, value |-> pin])
              IN [write |-> w,
                  back |-> IF w.ok THEN read_string_value(w.val.data) ELSE NoResult])

NextString == ApplyString

SpecString == InitString /\ [][NextString]_vars

(***************************************************************************)
(* Vocabulary of the properties.                                           *)
(***************************************************************************)
RxClasses == {"timeout", "io", "short", "match", "stale"}

IsRx(e) == e \in RxClasses

\* the datagram classes the current call received, in order
Rx == SelectSeq(ev, IsRx)

Count(e) == Cardinality({i \in 1..Len(ev) : ev[i] = e})

AllStale(q) == \A i \in 1..Len(q) : q[i] = "stale"

\* the status pairs the specification calls a success
StatusOk(r) ==
    \/ r.main_code = 0 /\ r.sub_code = 0
    \/ r.main_code = 0 /\ r.sub_code = 64 /\ r.data # <<>>

\* operands the specification says fail local validation
InvalidOperands(o) ==
    CASE o.name \in {"read", "fill", "transfer"} ->
            o.count = 0 \/ o.count > 999
      [] o.name = "read_string" -> o.word_count = 0 \/ o.word_count > 999
      [] o.name = "write" -> Len(o.data) = 0 \/ Len(o.data) > 999
      [] o.name \in {"read_bit", "write_bit"} -> o.bit > 15 \/ o.area = "DM"
      [] o.name = "forced_set_reset" ->
            \/ o.specs = <<>>
            \/ \E i \in 1..Len(o.specs) :
                  o.specs[i].area = "DM" \/ o.specs[i].bit > 15
      [] o.name = "read_multiple" ->
            \/ o.specs = <<>>
            \/ \E i \in 1..Len(o.specs) :
                  /\ o.specs[i].bit # None
                  /\ o.specs[i].area = "DM" \/ o.specs[i].bit > 15
      [] o.name = "write_string" -> Len(o.value) = 0 \/ Len(o.value) > 1998
      [] OTHER -> FALSE

(***************************************************************************)
(* Properties of the transaction layer.                                    *)
(***************************************************************************)

\* C1: when the first k responses of a call (1 <= k <= 3) carry a foreign SID
\* and the next one carries the allocated SID, the call does not fail with
\* SidMismatch; it ends on that response: PlcError with its status pair when
\* the status is a failure, otherwise the extracted payload.
C1_StaleRecovery ==
    (/\ pc = "done"
     /\ Len(Rx) \in 2..4
     /\ AllStale(SubSeq(Rx, 1, Len(Rx) - 1))
     /\ Rx[Len(Rx)] = "match")
    => /\ result.tag # "SidMismatch"
       /\ resp.header.sid = sid
       /\ ~StatusOk(resp) => result = plc_error(resp.main_code, resp.sub_code)
       /\ StatusOk(resp) => result.tag \in {"Ok", "InvalidResponse", "Panic"}
       /\ StatusOk(resp) /\ op.name = "read" /\ Len(resp.data) % 2 = 0
            => result.tag = "Ok" /\ Len(result.value) * 2 = Len(resp.data)
       /\ StatusOk(resp) /\ op.name \in {"write", "fill", "run", "stop", "transfer"}
            => result = [tag |-> "Ok", value |-> Unit]

C1_Witness ==
    /\ pc = "done"
    /\ Rx = <<"stale", "stale", "stale", "match">>
    /\ result.tag = "Ok"
    /\ op.name = "read"

\* C2: a call all of whose responses carry a foreign SID fails with
\* SidMismatch after the initial send, exactly 3 drain-and-resend retries and
\* the one final attempt: 5 sends and 4 drains.
C2_AlwaysStale ==
    /\ (pc = "done" /\ Rx # <<>> /\ AllStale(Rx))
         => /\ result.tag = "SidMismatch"
            /\ result.expected = sid
            /\ Len(Rx) = 1 + 3 + 1
            /\ sends = 1 + 3 + 1
            /\ drains = 3 + 1
    /\ (pc = "wait" /\ AllStale(Rx)) => Len(Rx) <= 1 + 3

C2_Witness ==
    /\ pc = "done"
    /\ AllStale(Rx)
    /\ Len(Rx) = 5
    /\ result.tag = "SidMismatch"
    /\ result.received # sid

\* C3 (as stated): a call hands its request to the transport at most 4 times.
C3_AtMostFourSends == sends <= 4

\* C3 (amended): a call hands its request to the transport at most 5 times:
\* the initial send, 3 retries and the final attempt.
C3_AtMostFiveSends == sends <= 5 /\ drains <= 4

C3_Witness == pc = "done" /\ sends = 5 /\ drains = 4

\* C4: no operation sends its request to the transport more than once.
C4_SingleRequest == sends <= 1

\* C5: a Timeout or I/O error of the transport, on whichever attempt, ends the
\* call with exactly that error; no send or drain follows it.
C5_TransportErrorPropagates ==
    \A i \in 1..Len(ev) :
        ev[i] \in {"timeout", "io"}
            => /\ i = Len(ev)
               /\ pc = "done"
               /\ result = IF ev[i] = "timeout" THEN Timeout ELSE Io

C5_Witness ==
    /\ pc = "done"
    /\ ev[Len(ev)] = "io"
    /\ sends = 5
    /\ result = Io

\* C6: an operation whose operands fail local validation returns
\* InvalidParameter or InvalidAddressing without any send or drain.
C6_ValidationBeforeIo ==
    (pc \in {"wait", "done"} /\ InvalidOperands(op))
        => /\ pc = "done"
           /\ result.tag \in {"InvalidParameter", "InvalidAddressing"}
           /\ sends = 0
           /\ drains = 0
           /\ Count("send") = 0
           /\ Count("drain") = 0

C6_Witness ==
    /\ pc = "done"
    /\ op.name = "forced_set_reset"
    /\ Len(op.specs) = 2
    /\ op.specs[2].area = "DM"
    /\ result.tag = "InvalidAddressing"
    /\ sends = 0

\* C7: a response with the allocated SID and a failure status ends the call
\* with PlcError carrying that status pair, and nothing is sent or drained
\* after it.
C7_PlcErrorOnMatch ==
    \A i \in 1..Len(ev) :
        ev[i] = "match"
            => /\ i = Len(ev)
               /\ pc = "done"
               /\ ~StatusOk(resp) => result = plc_error(resp.main_code, resp.sub_code)

\* C8: check_error succeeds exactly on status (0,0) and on status (0,0x40)
\* with a non-empty payload; otherwise it fails with PlcError{main, sub}.
C8_CheckError ==
    pc = "pure_done"
        => /\ pout.ok <=> StatusOk(pin)
           /\ ~pout.ok => pout.err = [tag |-> "PlcError",
                                      main_code |-> pin.main_code,
                                      sub_code |-> pin.sub_code]

C8_Witness ==
    /\ pc = "pure_done"
    /\ pin.main_code = 0
    /\ pin.sub_code = 64
    /\ pin.data = <<>>
    /\ ~pout.ok

\* C9: no operation aborts, whatever response of at least 14 bytes arrives.
C9_NeverPanics == result.tag # "Panic"

\* C10 (as stated): the n-th allocation returns (n-1) mod 256, and every
\* invocation allocates exactly once, before anything is validated.
C10_OneAllocationFirst ==
    /\ sid_counter = nalloc % 256
    /\ sid # NoSid => sid = (nalloc - 1) % 256
    /\ pc \in {"wait", "done"} => Count("alloc") = 1 /\ ev[1] = "alloc"

\* C10 (amended): the n-th allocation returns (n-1) mod 256; every invocation
\* allocates exactly once, before the command constructor validates, and
\* retries allocate none -- except that write_string checks its string first
\* and allocates nothing when the string is empty or longer than 999 words.
C10_SidCounter ==
    /\ sid_counter = nalloc % 256
    /\ sid # NoSid => sid = (nalloc - 1) % 256
    /\ pc \in {"wait", "done"} =>
         IF op.name = "write_string"
         THEN /\ ev[1] = "validate"
              /\ IF Len(op.value) = 0 \/ Len(op.value) > 1998
                 THEN ev = <<"validate">> /\ sid = NoSid
                 ELSE Count("alloc") = 1 /\ ev[2] = "alloc"
         ELSE Count("alloc") = 1 /\ ev[1] = "alloc"

C10_Witness ==
    /\ nalloc = 257
    /\ sid = 0
    /\ pc = "wait"
    /\ drains = 2
    /\ Count("alloc") = 1

(***************************************************************************)
(* Properties of one client shared by several threads.                     *)
(***************************************************************************)

\* C11: under every interleaving of concurrent callers no increment of the
\* counter is lost, each caller holds the SID its own allocation returned,
\* and an allocation returns a SID different from those of the 255
\* allocations before it -- so two callers whose allocations lie within one
\* window of 256 never hold the same SID.
C11_DistinctSids ==
    /\ sid_counter = Len(allocs) % 256
    /\ \A i \in 1..(Len(allocs) - 1) :
          Len(allocs) - i < 256 => allocs[i] # allocs[Len(allocs)]
    /\ \A t \in Threads : th[t].idx # NoCall => th[t].sid = allocs[th[t].idx]
    /\ \A t, u \in Threads :
          (/\ t # u
           /\ th[t].idx # NoCall
           /\ th[u].idx # NoCall
           /\ th[t].idx - th[u].idx < 256
           /\ th[u].idx - th[t].idx < 256)
          => th[t].sid # th[u].sid

C11_Witness ==
    /\ Len(allocs) = 257
    /\ allocs[257] = allocs[1]
    /\ th["A"].idx = 257
    /\ th["B"].idx = 256
    /\ th["A"].sid = 0
    /\ th["B"].sid = 255

\* the reply thread t received last was generated for another call's request
CrossReply(t) == th[t].got.from # NoCall /\ th[t].got.from # th[t].idx

\* C12: two calls running concurrently on one client can each receive the
\* reply the device generated for the other's request; a call that does so
\* rejects the reply as a stale datagram and is on its drain-and-retry path
\* (or, on the final attempt, fails with SidMismatch); it never returns it.
C12_CrossReplyRejected ==
    \A t \in Threads :
        CrossReply(t)
            => /\ th[t].got.cls = "stale"
               /\ \/ th[t].pc \in {"drain", "send", "recv"} /\ th[t].attempt >= 1
                  \/ th[t].pc = "done" /\ th[t].result.tag = "SidMismatch"

C12_Witness ==
    /\ th["A"].pc = "drain"
    /\ th["B"].pc = "drain"
    /\ th["A"].got = [cls |-> "stale", from |-> th["B"].idx]
    /\ th["B"].got = [cls |-> "stale", from |-> th["A"].idx]
    /\ th["A"].attempt = 1
    /\ th["B"].attempt = 1

(***************************************************************************)
(* Properties of the encoders, decoders and conversions.                   *)
(***************************************************************************)

\* C13: for every header, whatever its ten byte fields, and in particular
\* for the headers new_command builds, from_bytes(to_bytes(h)) succeeds and
\* gives back h.
C13_HeaderRoundTrip ==
    pc = "pure_done" => pout.ok /\ pout.val = pin

C13_Witness ==
    /\ pc = "pure_done"
    /\ pin = FinsHeader_new_command(NodeAddress_new(1, 2, 3), NodeAddress_new(4, 5, 6), 7)
    /\ pout.ok
    /\ pout.val.da1 = 2
    /\ pout.val.sa1 = 5

\* C14: ReadWordCommand, FillCommand and TransferCommand are constructed
\* exactly when 1 <= count <= 999, WriteWordCommand exactly when its data
\* has 1 to 999 words; any other count or length gives InvalidParameter.
C14_CountRange ==
    pc = "pure_done"
        => /\ pout.ok <=> (1 <= pin.count /\ pin.count <= 999)
           /\ pout.ok => pout.val.kind = pin.kind
           /\ ~pout.ok => pout.err.tag = "InvalidParameter"

C14_Witness ==
    /\ pc = "pure_done"
    /\ pin = [kind |-> "WriteWord", count |-> 1000]
    /\ ~pout.ok
    /\ pout.err.tag = "InvalidParameter"

\* C15: a ReadBit, WriteBit, ForcedSetReset or MultipleRead command that was
\* constructed is always encoded: to_bytes returns the buffer, never an
\* error.
C15_EncodingNeverFails ==
    (pc = "pure_done" /\ pout.cmd.ok)
        => /\ pout.bytes.ok
           /\ Len(pout.bytes.val) > FINS_HEADER_SIZE

C15_Witness ==
    /\ pc = "pure_done"
    /\ pin.kind = "MultipleRead"
    /\ Len(pin.specs) = 3
    /\ pin.specs[1].area = "DM"
    /\ pin.specs[3].bit = 0
    /\ pout.cmd.ok
    /\ pout.bytes.ok
    /\ Len(pout.bytes.val) = 24

\* the tuples ForcedSetResetCommand::new is said to reject
BadForcedBit(spec) == spec.area = "DM" \/ spec.bit > 15

\* C16: ForcedSetResetCommand::new fails, and no command exists, when the
\* list is empty or a tuple at any position of it names the DM area or a bit
\* above 15.
C16_ForcedValidation ==
    (/\ pc = "pure_done"
     /\ pin.kind = "ForcedSetReset"
     /\ \/ pin.specs = <<>>
        \/ \E i \in 1..Len(pin.specs) : BadForcedBit(pin.specs[i]))
    => /\ ~pout.cmd.ok
       /\ pout.cmd.err.tag \in {"InvalidParameter", "InvalidAddressing"}
       /\ pout.bytes = NoResult

C16_Witness ==
    /\ pc = "pure_done"
    /\ pin.kind = "ForcedSetReset"
    /\ Len(pin.specs) = 3
    /\ ~BadForcedBit(pin.specs[1])
    /\ ~BadForcedBit(pin.specs[2])
    /\ pin.specs[3].bit = 16
    /\ pin.specs[3].area = "AR"
    /\ pout.cmd.err.tag = "InvalidParameter"

\* C17: a valid ReadWordCommand (count in 1..999) is encoded in exactly 18
\* bytes: the header with 0x80 first and the SID tenth, then 0x01, 0x01, the
\* word code of the area, the word address high byte first, 0x00, and the
\* count high byte first.  (Positions below count from 1.)
C17_ReadWordLayout ==
    (pc = "pure_done" /\ 1 <= pin.count /\ pin.count <= 999)
        => /\ pout.cmd.ok
           /\ Len(pout.bytes) = 18
           /\ \A i \in 1..18 : pout.bytes[i] \in 0..255
           /\ pout.bytes[1] = 128
           /\ pout.bytes[10] = pin.sid
           /\ pout.bytes[11] = 1
           /\ pout.bytes[12] = 1
           /\ pout.bytes[13] = word_code(pin.area)
           /\ pout.bytes[14] * 256 + pout.bytes[15] = pin.address
           /\ pout.bytes[16] = 0
           /\ pout.bytes[17] * 256 + pout.bytes[18] = pin.count

C17_Witness ==
    /\ pc = "pure_done"
    /\ pin = [area |-> "DM", address |-> 4660, count |-> 10, sid |-> 128]
    /\ pout.bytes = <<128, 0, 7, 0, 10, 0, 0, 1, 0, 128, 1, 1, 130, 18, 52, 0, 0, 10>>

\* C18: the words write_i32, write_f32 or write_f64 produce for a value,
\* handed unchanged to the matching read helper, give back every bit of the
\* value.
C18_NumericRoundTrip ==
    pc = "pure_done"
        => /\ Len(pout.words) = Len(pin.bytes) \div 2
           /\ \A i \in 1..Len(pout.words) : pout.words[i] \in 0..65535
           /\ pout.back = [tag |-> "Ok", value |-> pin.bytes]

C18_Witness ==
    /\ pc = "pure_done"
    /\ pin = [type |-> "f64", bytes |-> <<1, 35, 69, 103, 137, 171, 205, 239>>]
    /\ pout.words = <<52719, 35243, 17767, 291>>
    /\ pout.back.value = pin.bytes

\* C19: write_f32 and write_i32 both send the low-order 16 bits of the value
\* as the first word and the high-order 16 bits as the second, and read_f32
\* and read_i32 both take the first word received as the low-order half.
C19_LowWordFirst ==
    (pc = "pure_done" /\ pin.type \in {"f32", "i32"})
        => /\ pout.words[1] = pin.bytes[3] * 256 + pin.bytes[4]
           /\ pout.words[2] = pin.bytes[1] * 256 + pin.bytes[2]
           /\ pout.rd.value =
                 <<pin.bytes[3], pin.bytes[4], pin.bytes[1], pin.bytes[2]>>

C21_DiagnosticAttempt ==
    (Len(Rx) >= 4 /\ AllStale(SubSeq(Rx, 1, 4)))
        => /\ sends = 5
           /\ drains = 4
           /\ Count("send") = 5
           /\ Count("drain") = 4
           /\ sent[5] = sent[1]
           /\ sent[5] = buf
           /\ Len(Rx) <= 5
           /\ pc = "wait" => /\ Len(Rx) = 4
                             /\ SubSeq(ev, Len(ev) - 2, Len(ev)) = <<"stale", "drain", "send">>
           /\ pc = "done" => /\ Len(Rx) = 5
                             /\ SubSeq(ev, Len(ev) - 3, Len(ev) - 1)
                                   = <<"stale", "drain", "send">>
           /\ (pc = "done" /\ Rx[5] \in {"stale", "match"})
                 => result = [tag |-> "SidMismatch", expected |-> sid,
                              received |-> resp.header.sid]

C21_Witness ==
    /\ pc = "done"
    /\ op.name = "write"
    /\ Rx = <<"stale", "stale", "stale", "stale", "stale">>
    /\ resp.header.sid = (sid + 1) % 256
    /\ result = [tag |-> "SidMismatch", expected |-> sid, received |-> (sid + 1) % 256]
    /\ sent[5] = sent[1]

LastRx == IF Rx = <<>> THEN "none" ELSE Rx[Len(Rx)]

\* C23: every buffer a call hands to the transport is byte for byte the one
\* encoded at the start of the call, its tenth byte is the SID allocated to
\* the call, and that SID is what every response is compared against.
C23_SameBuffer ==
    /\ Len(sent) = sends
    /\ \A i \in 1..Len(sent) :
          /\ sent[i] = sent[1]
          /\ sent[i] = buf
          /\ sent[i][10] = sid
    /\ LastRx = "match" => resp.header.sid = sid
    /\ LastRx = "stale" => resp.header.sid # sid

C23_Witness ==
    /\ pc = "wait"
    /\ op.name = "read"
    /\ sid = 1
    /\ Len(sent) = 4
    /\ sent[4] = sent[1]
    /\ sent[4][10] = 1

\* C24: a response with a foreign SID is stale whatever its status pair: the
\* call retries, or fails with SidMismatch on the last attempt, and it
\* returns PlcError only for a response that carries the allocated SID.
C24_StatusAfterSidMatch ==
    /\ LastRx = "stale"
          => /\ resp.header.sid # sid
             /\ pc = "wait" \/ (pc = "done" /\ result.tag = "SidMismatch")
             /\ pc = "wait" => SubSeq(ev, Len(ev) - 2, Len(ev)) = <<"stale", "drain", "send">>
    /\ result.tag = "PlcError"
          => /\ LastRx = "match"
             /\ resp.header.sid = sid
             /\ result = plc_error(resp.main_code, resp.sub_code)

C24_Witness ==
    /\ pc = "wait"
    /\ LastRx = "stale"
    /\ attempt = 1
    /\ resp.main_code = 1
    /\ resp.sub_code = 1
    /\ resp.header.sid # sid

\* C25: a datagram shorter than 14 bytes, on whichever attempt it arrives,
\* ends the call with InvalidResponse; no drain and no send follows it.
C25_ShortDatagram ==
    \A i \in 1..Len(ev) :
        ev[i] = "short"
            => /\ i = Len(ev)
               /\ pc = "done"
               /\ result.tag = "InvalidResponse"

C25_Witness ==
    /\ pc = "done"
    /\ Rx = <<"stale", "stale", "stale", "stale", "short">>
    /\ sends = 5
    /\ drains = 4
    /\ result.tag = "InvalidResponse"

\* C26: when every transport.send_receive returns, a call that waits for the
\* transport eventually returns to its caller, whatever it receives.
C26_Termination == (pc = "wait") ~> (pc = "done")

C26_Witness ==
    /\ pc = "done"
    /\ Rx = <<"stale", "stale", "stale", "stale", "timeout">>
    /\ result = Timeout

\* C27: a call that fails with SidMismatch reports a received SID different
\* from the expected one; a response carrying the allocated SID is never
\* reported as a mismatch, whichever attempt it arrives on.
C27_MismatchDiffers ==
    /\ result.tag = "SidMismatch" => result.received # result.expected
    /\ LastRx = "match" => result.tag # "SidMismatch"

\* C28: a successful read(area, address, count) returns exactly count words,
\* whatever the length of the payload of the response.
C28_ReadReturnsCount ==
    (pc = "done" /\ op.name = "read" /\ result.tag = "Ok")
        => Len(result.value) = op.count

(***************************************************************************)
(* Further properties of one client shared by several threads, and of one *)
(* thread calling it in sequence, with the device at the other end.        *)
(***************************************************************************)

\* the call of thread t ended on a response it accepted: it returned the
\* payload, or the error check_error or the extraction made of it
TookReply(t) ==
    /\ th[t].pc = "done"
    /\ th[t].result.tag \in {"Ok", "PlcError", "InvalidResponse", "Panic"}

\* C29: while at most 256 SIDs have been allocated and the device echoes the
\* SID of each request, a call never returns a result taken from a reply the
\* device generated for another call's request, however the calls
\* interleave and however the datagrams are delayed, duplicated or reordered.
C29_NoCrossResult ==
    Len(allocs) <= 256
        => \A t \in Threads :
              TookReply(t) => /\ th[t].got.cls = "match"
                              /\ th[t].got.from = th[t].idx

C29_Witness ==
    /\ TookReply("A")
    /\ TookReply("B")
    /\ th["A"].attempt = 1
    /\ th["B"].attempt = 2
    /\ th["A"].got.from = th["A"].idx
    /\ th["B"].got.from = th["B"].idx
    /\ ndup = 1
    /\ Len(sockq) = 1

\* the call of thread t has received the first datagram of its first attempt:
\* it returned on it, or it is about to drain the socket and send again
FirstDatagram(t) ==
    /\ th[t].got.cls \in {"match", "stale", "short"}
    /\ \/ th[t].pc = "done" /\ th[t].attempt = 0
       \/ th[t].pc = "drain" /\ th[t].attempt = 1

\* C30: in sequential use, when a call has returned successfully (possibly
\* after retries) the datagram the next call receives on its first attempt
\* carries the SID of that call -- the device answering every request once
\* and the network delaying datagrams without dropping or duplicating them.
C30_NextCallClean ==
    (th["A"].prev = "Ok" /\ FirstDatagram("A")) => th["A"].got.cls = "match"

====
